---- MODULE Spec2Model ----
(***************************************************************************)
(* pbs-exporter (src/main.go): a Prometheus collector that, on every       *)
(* scrape, walks the Proxmox Backup Server API                             *)
(*   datastore-usage -> per datastore: namespace -> per namespace:         *)
(*   snapshots -> node status                                              *)
(* and sends one sample per value to the scrape's metric channel.          *)
(*                                                                         *)
(* A scrape is a sequential Go call chain that blocks in client.Do and in   *)
(* every send to the metric channel.  One action of the model is one such  *)
(* blocking operation completing, with the code that runs up to the next   *)
(* one or to the end of Collect.                                           *)
(***************************************************************************)
EXTENDS Integers, Sequences, FiniteSets, TLC

VARIABLES
    frame,      \* per scrape: the locals of the Collect call chain
    ch,         \* per metric channel: the samples sent to it, in order
    served,     \* the backend: the response it gives for each URL, once asked
    proc        \* the process: flags, environment, and what main() built

vars == <<frame, ch, served, proc>>

----------------------------------------------------------------------------
(* Bounds of the model.                                                    *)

MaxDatastores == 2      \* entries of a usage listing
MaxNamespaces == 2      \* entries of a namespace listing
MaxSnapshots == 3       \* entries of a snapshot listing (grouping check)
NScrapes == 2           \* scrapes running at the same time

SeqsUpTo(S, n) == UNION {[1..k -> S] : k \in 0..n}

Range(q) == {q[i] : i \in 1..Len(q)}

----------------------------------------------------------------------------
(* Constants of the program.                                               *)

promNamespace == "pbs"
datastoreUsageApi == "/api2/json/status/datastore-usage"
datastoreApi == "/api2/json/admin/datastore"
nodeApi == "/api2/json/nodes"

\* prometheus.BuildFQName: the non-empty parts joined by "_"; "" if name is "".
BuildFQName(namespace, subsystem, name) ==
    IF name = "" THEN ""
    ELSE IF namespace # "" /\ subsystem # ""
         THEN namespace \o "_" \o subsystem \o "_" \o name
    ELSE IF namespace # "" THEN namespace \o "_" \o name
    ELSE IF subsystem # "" THEN subsystem \o "_" \o name
    ELSE name

\* prometheus.NewDesc(fqName, help, variableLabels, nil)
NewDesc(fqName, variableLabels) ==
    [fqName |-> fqName, variableLabels |-> variableLabels]

up == NewDesc(BuildFQName(promNamespace, "", "up"), <<>>)
available == NewDesc(BuildFQName(promNamespace, "", "available"), <<>>)
size == NewDesc(BuildFQName(promNamespace, "", "size"), <<>>)
used == NewDesc(BuildFQName(promNamespace, "", "used"), <<>>)
snapshot_count ==
    NewDesc(BuildFQName(promNamespace, "", "snapshot_count"), <<"namespace">>)
snapshot_vm_count ==
    NewDesc(BuildFQName(promNamespace, "", "snapshot_vm_count"),
            <<"namespace", "vm_id">>)
host_cpu_usage == NewDesc(BuildFQName(promNamespace, "", "host_cpu_usage"), <<>>)
host_memory_free == NewDesc(BuildFQName(promNamespace, "", "host_memory_free"), <<>>)
host_memory_total == NewDesc(BuildFQName(promNamespace, "", "host_memory_total"), <<>>)
host_memory_used == NewDesc(BuildFQName(promNamespace, "", "host_memory_used"), <<>>)
host_swap_free == NewDesc(BuildFQName(promNamespace, "", "host_swap_free"), <<>>)
host_swap_total == NewDesc(BuildFQName(promNamespace, "", "host_swap_total"), <<>>)
host_swap_used == NewDesc(BuildFQName(promNamespace, "", "host_swap_used"), <<>>)
host_disk_available ==
    NewDesc(BuildFQName(promNamespace, "", "host_available_free"), <<>>)
host_disk_total == NewDesc(BuildFQName(promNamespace, "", "host_disk_total"), <<>>)
host_disk_used == NewDesc(BuildFQName(promNamespace, "", "host_disk_used"), <<>>)
host_uptime == NewDesc(BuildFQName(promNamespace, "", "host_uptime"), <<>>)
host_io_wait == NewDesc(BuildFQName(promNamespace, "", "host_io_wait"), <<>>)

\* float64(x) of an int64: exact for |x| < 2^53.  Every integer of the model
\* is far below that, so the conversion returns its argument.
float64(x) == x

\* prometheus.MustNewConstMetric(desc, GaugeValue, value, labelValues...):
\* a sample carrying the descriptor's name, the label values in the order of
\* the descriptor's variable labels, and the value.
MustNewConstMetric(desc, value, labelValues) ==
    [name |-> desc.fqName, labels |-> labelValues, value |-> value]

----------------------------------------------------------------------------
(* The backup server, seen from the exporter.                              *)

\* Decoded elements of DatastoreResponse.Data.  The "ns" field of an entry
\* is decoded and never read, so it is left out.  "%zz" is a store name that
\* is no valid URL path (an invalid escape): http.NewRequest rejects it.
DatastoreEntries ==
    { [Store |-> "s1", Avail |-> 10, Total |-> 30, Used |-> 20],
      [Store |-> "s2", Avail |-> 40, Total |-> 90, Used |-> 50],
      [Store |-> "%zz", Avail |-> 1, Total |-> 3, Used |-> 2] }

Stores == {d.Store : d \in DatastoreEntries}

\* Namespace names of NamespaceResponse.Data; "" is the root namespace.
NsNames == {"", "n1", "n2"}

\* Backup ids of SnapshotResponse.Data.
BackupIDs == {"a", "b"}

\* HostResponse.Data.  cpu and wait are float64 in the code; the model
\* draws them from the integers, which json decodes to the same float64.
HostStatuses ==
    { [CPU |-> 1, Mem |-> [Free |-> 2, Total |-> 3, Used |-> 4],
       Swap |-> [Free |-> 5, Total |-> 6, Used |-> 7],
       Disk |-> [Avail |-> 8, Total |-> 9, Used |-> 10],
       Uptime |-> 11, Wait |-> 12],
      [CPU |-> 21, Mem |-> [Free |-> 22, Total |-> 23, Used |-> 24],
       Swap |-> [Free |-> 25, Total |-> 26, Used |-> 27],
       Disk |-> [Avail |-> 28, Total |-> 29, Used |-> 30],
       Uptime |-> 31, Wait |-> 32] }

\* What one GET gives back: err is the error of client.Do ("transport") or of
\* io.ReadAll ("read"), status the HTTP status, valid whether the body
\* unmarshals into the expected struct, data the struct's Data when it does.
OK(d) == [err |-> "", status |-> 200, valid |-> TRUE, data |-> d]

\* The failing responses; zero is the zero value of the struct's Data, which
\* is all the code could read from it.
Failures(zero) ==
    { [err |-> "transport", status |-> 0, valid |-> FALSE, data |-> zero],
      [err |-> "read", status |-> 200, valid |-> TRUE, data |-> zero],
      [err |-> "", status |-> 500, valid |-> TRUE, data |-> zero],
      [err |-> "", status |-> 200, valid |-> FALSE, data |-> zero] }

ZeroHost ==
    [CPU |-> 0, Mem |-> [Free |-> 0, Total |-> 0, Used |-> 0],
     Swap |-> [Free |-> 0, Total |-> 0, Used |-> 0],
     Disk |-> [Avail |-> 0, Total |-> 0, Used |-> 0],
     Uptime |-> 0, Wait |-> 0]

\* Strings url.Parse rejects (the model's one: an invalid percent escape).
Unparseable == {"%zz"}

RECURSIVE Concat(_)
Concat(parts) ==
    IF parts = <<>> THEN "" ELSE Head(parts) \o Concat(Tail(parts))

\* http.NewRequest("GET", url, nil): the request, or the URL's parse error.
NewRequest(parts) ==
    [url |-> Concat(parts),
     err |-> IF \E i \in 1..Len(parts) : parts[i] \in Unparseable
             THEN "request" ELSE ""]

UsageRequest(e) == NewRequest(<<e.endpoint, datastoreUsageApi>>)
NamespaceRequest(e, store) ==
    NewRequest(<<e.endpoint, datastoreApi, "/", store, "/namespace">>)
SnapshotsRequest(e, store, namespace) ==
    NewRequest(<<e.endpoint, datastoreApi, "/", store, "/snapshots?ns=", namespace>>)
NodeRequest(e) == NewRequest(<<e.endpoint, nodeApi, "/localhost/status">>)

\* The error the code finds in a response, in the order it looks:
\* client.Do, io.ReadAll, the status code, json.Unmarshal.  "" is nil.
ResponseError(r) ==
    IF r.err = "transport" THEN "transport"
    ELSE IF r.err = "read" THEN "read"
    ELSE IF r.status # 200 THEN "status"
    ELSE IF ~r.valid THEN "decode"
    ELSE ""

----------------------------------------------------------------------------
(* One scrape: the call chain Collect -> collectFromAPI ->                 *)
(* getDatastoreMetric -> getNamespaceMetric, and getNodeMetrics.           *)
(*                                                                         *)
(* A frame holds the locals that live across a blocking operation:         *)
(*   pc        where the chain blocks: "idle" (Collect not yet called);    *)
(*             in client.Do: "usage", "namespace", "snapshots", "node"     *)
(*             (named after the request); in a send `ch <- ...`:           *)
(*             "datastore", "snapshot_count", "snapshot_vm_count", "host", *)
(*             "up" (named after the sample); "done" (Collect returned)    *)
(*   dsList    response.Data of collectFromAPI, di the loop's index        *)
(*   nsList    response.Data of getDatastoreMetric, ni the loop's index    *)
(*   snapshots response.Data of getNamespaceMetric                         *)
(*   ranged    the keys `range vmCount` has yielded, the last one being    *)
(*             the one whose sample is in the send                         *)
(*   host      response.Data of getNodeMetrics                             *)
(*   k         which of the sends of a straight run of sends the chain is  *)
(*             in: 1..3 in getDatastoreMetric, 1..12 in getNodeMetrics     *)
(*   err       the error collectFromAPI returned ("" is nil)               *)
(*   sent      the URLs handed to client.Do, in order                      *)
(*   fetches   every fetch that has ended, with its error ("" is nil)      *)
(* The operators below take a frame to the frame at the next blocking      *)
(* operation.                                                              *)

IdleFrame ==
    [pc |-> "idle", dsList |-> <<>>, di |-> 0, nsList |-> <<>>, ni |-> 0,
     snapshots |-> <<>>, ranged |-> <<>>, host |-> ZeroHost, k |-> 0,
     err |-> "", sent |-> <<>>, fetches |-> <<>>]

Fetched(f, url, err) ==
    [f EXCEPT !.fetches = Append(@, [url |-> url, err |-> err])]

\* Collect returning on an error without sending up=0.
CollectReturnNoUp(f, err) ==
    IF err # ""
    THEN [f EXCEPT !.pc = "done", !.err = err]
    ELSE [f EXCEPT !.pc = "up", !.err = err]

\* collectFromAPI has returned err to Collect, which goes to its send of up.
CollectReturn(f, err) == [f EXCEPT !.pc = "up", !.err = err]

\* up=1 whatever collectFromAPI returned.
UpSampleAlwaysOne(err) == MustNewConstMetric(up, 1, <<>>)

\* The sample Collect sends: up=0 on an error, up=1 on nil.
UpSample(err) ==
    IF err # ""
    THEN MustNewConstMetric(up, 0, <<>>)
    ELSE MustNewConstMetric(up, 1, <<>>)

\* Build the request and hand it to client.Do, or return NewRequest's error.
Send(f, req, pc) ==
    IF req.err # ""
    THEN CollectReturn(Fetched(f, req.url, req.err), req.err)
    ELSE [f EXCEPT !.pc = pc, !.sent = Append(@, req.url)]

\* collectFromAPI returning nil without calling getNodeMetrics.
GetNodeMetricsSkipped(f, e) == CollectReturn(f, "")

\* getNodeMetrics up to client.Do.
GetNodeMetricsSend(f, e) == Send(f, NodeRequest(e), "node")

\* The datastore's samples with size and used carrying each other's value.
DatastoreSamplesSwapped(datastore) ==
    << MustNewConstMetric(available, float64(datastore.Avail), <<>>),
       MustNewConstMetric(size, float64(datastore.Used), <<>>),
       MustNewConstMetric(used, float64(datastore.Total), <<>>) >>

\* The three samples getDatastoreMetric sends for its datastore.
DatastoreSamples(datastore) ==
    << MustNewConstMetric(available, float64(datastore.Avail), <<>>),
       MustNewConstMetric(size, float64(datastore.Total), <<>>),
       MustNewConstMetric(used, float64(datastore.Used), <<>>) >>

\* getDatastoreMetric is called for the i-th datastore and blocks in its
\* first send.
GetDatastoreMetric(f, i) == [f EXCEPT !.di = i, !.pc = "datastore", !.k = 1]

\* getDatastoreMetric fetching the usage listing again for its datastore.
GetDatastoreMetricRefetch(f, e) ==
    Send(Send(f, UsageRequest(e), "usage"),
         NamespaceRequest(e, f.dsList[f.di].Store), "namespace")

\* getDatastoreMetric after its three sends: the request for the datastore's
\* namespaces, up to client.Do.
GetDatastoreMetricSend(f, e) ==
    Send(f, NamespaceRequest(e, f.dsList[f.di].Store), "namespace")

\* collectFromAPI's loop over response.Data from index i on, then
\* getNodeMetrics.
NextDatastore(f, e, i) ==
    IF i <= Len(f.dsList)
    THEN GetDatastoreMetric(f, i)
    ELSE GetNodeMetricsSend(f, e)

\* The loop without its `if namespace.Namespace == "" { continue }`.
NextNamespaceNoSkip(nsList, from) ==
    IF from <= Len(nsList) THEN from ELSE 0

\* getDatastoreMetric's loop: the first index from `from` on that the loop
\* body does not skip (0 when the loop ends).
NextNamespace(nsList, from) ==
    LET rest == {j \in from..Len(nsList) : nsList[j] # ""}
    IN  IF rest = {} THEN 0 ELSE CHOOSE j \in rest : \A k \in rest : j <= k

\* getNamespaceMetric up to client.Do.
GetNamespaceMetricSend(f, e, j) ==
    Send([f EXCEPT !.ni = j],
         SnapshotsRequest(e, f.dsList[f.di].Store, f.nsList[j]),
         "snapshots")

\* getDatastoreMetric's loop over response.Data from index `from` on; when it
\* ends, getDatastoreMetric returns nil and collectFromAPI's loop goes on.
NamespaceLoop(f, e, from) ==
    LET j == NextNamespace(f.nsList, from)
    IN  IF j # 0
        THEN GetNamespaceMetricSend(f, e, j)
        ELSE NextDatastore(f, e, f.di + 1)

\* The counting loop with `vmCount[vmName] = 1` for `vmCount[vmName]++`.
RECURSIVE CountVMsPresence(_, _, _)
CountVMsPresence(data, i, vmCount) ==
    IF i > Len(data) THEN vmCount
    ELSE CountVMsPresence(data, i + 1,
             [v \in DOMAIN vmCount \cup {data[i]} |->
                 IF v = data[i] THEN 1 ELSE vmCount[v]])

\* vmCount after the counting loop over data[i..]: vmCount[vmName]++.
RECURSIVE CountVMs(_, _, _)
CountVMs(data, i, vmCount) ==
    IF i > Len(data) THEN vmCount
    ELSE LET vmName == data[i]
             old == IF vmName \in DOMAIN vmCount THEN vmCount[vmName] ELSE 0
         IN  CountVMs(data, i + 1,
                 [v \in DOMAIN vmCount \cup {vmName} |->
                     IF v = vmName THEN old + 1 ELSE vmCount[v]])

EmptyMap == [v \in {} |-> 0]

\* The keys `range vmCount` may yield next, having yielded `ranged`: any key
\* it has not yielded yet (Go leaves the iteration order of a map
\* unspecified); none when the loop is over.
RangeNext(vmCount, ranged) == DOMAIN vmCount \ Range(ranged)

\* The sample getNamespaceMetric sends first.
SnapshotCountSample(namespace, data) ==
    MustNewConstMetric(snapshot_count, float64(Len(data)), <<namespace>>)

\* The sample the body of `range vmCount` sends for the key vmName.
SnapshotVMCountSample(namespace, data, vmName) ==
    LET vmCount == CountVMs(data, 1, EmptyMap)
        count == vmCount[vmName]
    IN  MustNewConstMetric(snapshot_vm_count, float64(count), <<namespace, vmName>>)

\* getNodeMetrics with host_memory_free and host_memory_used carrying each
\* other's field.
HostSamplesSwapped(d) ==
    << MustNewConstMetric(host_cpu_usage, float64(d.CPU), <<>>),
       MustNewConstMetric(host_memory_free, float64(d.Mem.Used), <<>>),
       MustNewConstMetric(host_memory_total, float64(d.Mem.Total), <<>>),
       MustNewConstMetric(host_memory_used, float64(d.Mem.Free), <<>>),
       MustNewConstMetric(host_swap_free, float64(d.Swap.Free), <<>>),
       MustNewConstMetric(host_swap_total, float64(d.Swap.Total), <<>>),
       MustNewConstMetric(host_swap_used, float64(d.Swap.Used), <<>>),
       MustNewConstMetric(host_disk_available, float64(d.Disk.Avail), <<>>),
       MustNewConstMetric(host_disk_total, float64(d.Disk.Total), <<>>),
       MustNewConstMetric(host_disk_used, float64(d.Disk.Used), <<>>),
       MustNewConstMetric(host_uptime, float64(d.Uptime), <<>>),
       MustNewConstMetric(host_io_wait, float64(d.Wait), <<>>) >>

\* The twelve samples getNodeMetrics sends after json.Unmarshal, in order.
HostSamples(d) ==
    << MustNewConstMetric(host_cpu_usage, float64(d.CPU), <<>>),
       MustNewConstMetric(host_memory_free, float64(d.Mem.Free), <<>>),
       MustNewConstMetric(host_memory_total, float64(d.Mem.Total), <<>>),
       MustNewConstMetric(host_memory_used, float64(d.Mem.Used), <<>>),
       MustNewConstMetric(host_swap_free, float64(d.Swap.Free), <<>>),
       MustNewConstMetric(host_swap_total, float64(d.Swap.Total), <<>>),
       MustNewConstMetric(host_swap_used, float64(d.Swap.Used), <<>>),
       MustNewConstMetric(host_disk_available, float64(d.Disk.Avail), <<>>),
       MustNewConstMetric(host_disk_total, float64(d.Disk.Total), <<>>),
       MustNewConstMetric(host_disk_used, float64(d.Disk.Used), <<>>),
       MustNewConstMetric(host_uptime, float64(d.Uptime), <<>>),
       MustNewConstMetric(host_io_wait, float64(d.Wait), <<>>) >>

\* One channel kept by the exporter and used by every Collect.
SharedChan(s) == 1

\* The channel Collect of scrape s was given: the registry makes one per
\* Gather.
Chan(s) == s

\* The backend's answer to a GET of url: the answer it gave before, or, the
\* first time, any of U.
Responses(url, U) ==
    IF served[url].known THEN {served[url].resp} ELSE U

Serve(url, resp) ==
    served' = [served EXCEPT ![url] = [known |-> TRUE, resp |-> resp]]

\* The scrape's call chain goes on to its next blocking operation.
Step(s, f) == frame' = [frame EXCEPT ![s] = f]

\* `ch <- m` on the scrape's channel.
ChanSend(s, m) == ch' = [ch EXCEPT ![Chan(s)] = Append(@, m)]

\* The error of a response dropped: the chain goes on with the zero value.
OnResponseIgnored(f, err, rest) == rest

\* `if err != nil { return err }` (and the status check) after a response:
\* return the error, up to Collect, or go on with `rest`.
OnResponse(f, err, rest) ==
    IF err # "" THEN CollectReturn(f, err) ELSE rest

----------------------------------------------------------------------------
(* The actions of a scrape: one per blocking operation of the call chain,  *)
(* a client.Do or a send to the metric channel.  Each is the operation     *)
(* completing and the code that runs up to the next blocking operation.    *)
(* Between two of them the channel's reader and the other scrapes run.  U  *)
(* is what the backend may answer: a record of the sets of responses to    *)
(* the four kinds of request.                                              *)

\* Collect is called: collectFromAPI builds the usage request and blocks in
\* client.Do.
Collect(s) ==
    /\ proc.phase = "serving"
    /\ frame[s].pc = "idle"
    /\ Step(s, Send(frame[s], UsageRequest(proc.exporter), "usage"))
    /\ UNCHANGED <<ch, served, proc>>

\* The usage listing's response arrives: collectFromAPI checks and decodes
\* it and calls getDatastoreMetric for the first datastore, which blocks in
\* its first send, or getNodeMetrics if there is none.
RecvUsage(s, U) ==
    /\ frame[s].pc = "usage"
    /\ LET e == proc.exporter
           url == UsageRequest(e).url
       IN  \E resp \in Responses(url, U.usage) :
             LET err == ResponseError(resp)
                 f == Fetched(frame[s], url, err)
             IN  /\ Serve(url, resp)
                 /\ Step(s, OnResponse(f, err,
                      NextDatastore([f EXCEPT !.dsList = resp.data], e, 1)))
    /\ UNCHANGED <<ch, proc>>

\* One of getDatastoreMetric's three sends completes: the next one, or,
\* after the third, the request for the datastore's namespaces.
SendDatastore(s) ==
    /\ frame[s].pc = "datastore"
    /\ LET f == frame[s]
       IN  /\ ChanSend(s, DatastoreSamples(f.dsList[f.di])[f.k])
           /\ Step(s, IF f.k < 3
                      THEN [f EXCEPT !.k = @ + 1]
                      ELSE GetDatastoreMetricSend(f, proc.exporter))
    /\ UNCHANGED <<served, proc>>

\* A namespace listing's response arrives: getDatastoreMetric checks and
\* decodes it and loops over the namespaces.
RecvNamespace(s, U) ==
    /\ frame[s].pc = "namespace"
    /\ LET e == proc.exporter
           url == NamespaceRequest(e, frame[s].dsList[frame[s].di].Store).url
       IN  \E resp \in Responses(url, U.namespace) :
             LET err == ResponseError(resp)
                 f == Fetched(frame[s], url, err)
             IN  /\ Serve(url, resp)
                 /\ Step(s, OnResponse(f, err,
                      NamespaceLoop([f EXCEPT !.nsList = resp.data], e, 1)))
    /\ UNCHANGED <<ch, proc>>

\* A snapshot listing's response arrives: getNamespaceMetric checks and
\* decodes it and blocks in its send of snapshot_count.
RecvSnapshots(s, U) ==
    /\ frame[s].pc = "snapshots"
    /\ LET e == proc.exporter
           namespace == frame[s].nsList[frame[s].ni]
           url == SnapshotsRequest(e, frame[s].dsList[frame[s].di].Store,
                                   namespace).url
       IN  \E resp \in Responses(url, U.snapshots) :
             LET err == ResponseError(resp)
                 f == Fetched(frame[s], url, err)
             IN  /\ Serve(url, resp)
                 /\ Step(s, OnResponse(f, err,
                      [f EXCEPT !.snapshots = resp.data, !.ranged = <<>>,
                                !.pc = "snapshot_count"]))
    /\ UNCHANGED <<ch, proc>>

\* `range vmCount` goes on: it yields a key, whose sample the loop's body
\* then sends, or it is over, getNamespaceMetric returns nil and the loop
\* over the namespaces goes on.
RangeVMCount(s, f) ==
    LET next == RangeNext(CountVMs(f.snapshots, 1, EmptyMap), f.ranged)
    IN  IF next = {}
        THEN Step(s, NamespaceLoop(f, proc.exporter, f.ni + 1))
        ELSE \E vmName \in next :
                Step(s, [f EXCEPT !.ranged = Append(@, vmName),
                                  !.pc = "snapshot_vm_count"])

\* The send of snapshot_count completes: vmCount is counted and ranged over.
SendSnapshotCount(s) ==
    /\ frame[s].pc = "snapshot_count"
    /\ LET f == frame[s]
       IN  /\ ChanSend(s, SnapshotCountSample(f.nsList[f.ni], f.snapshots))
           /\ RangeVMCount(s, f)
    /\ UNCHANGED <<served, proc>>

\* The send of a snapshot_vm_count completes: the range goes on.
SendSnapshotVMCount(s) ==
    /\ frame[s].pc = "snapshot_vm_count"
    /\ LET f == frame[s]
       IN  /\ ChanSend(s, SnapshotVMCountSample(f.nsList[f.ni], f.snapshots,
                                                f.ranged[Len(f.ranged)]))
           /\ RangeVMCount(s, f)
    /\ UNCHANGED <<served, proc>>

\* The node status's response arrives: getNodeMetrics checks and decodes it
\* and blocks in its first send.
RecvNode(s, U) ==
    /\ frame[s].pc = "node"
    /\ LET e == proc.exporter
           url == NodeRequest(e).url
       IN  \E resp \in Responses(url, U.node) :
             LET err == ResponseError(resp)
                 f == Fetched(frame[s], url, err)
             IN  /\ Serve(url, resp)
                 /\ Step(s, OnResponse(f, err,
                      [f EXCEPT !.host = resp.data, !.pc = "host", !.k = 1]))
    /\ UNCHANGED <<ch, proc>>

\* One of getNodeMetrics' sends completes: the next one, or, after the
\* last, getNodeMetrics and collectFromAPI return nil.
SendHost(s) ==
    /\ frame[s].pc = "host"
    /\ LET f == frame[s]
           samples == HostSamples(f.host)
       IN  /\ ChanSend(s, samples[f.k])
           /\ Step(s, IF f.k < Len(samples)
                      THEN [f EXCEPT !.k = @ + 1]
                      ELSE CollectReturn(f, ""))
    /\ UNCHANGED <<served, proc>>

\* Collect's send of up completes and Collect returns.
SendUp(s) ==
    /\ frame[s].pc = "up"
    /\ ChanSend(s, UpSample(frame[s].err))
    /\ Step(s, [frame[s] EXCEPT !.pc = "done"])
    /\ UNCHANGED <<served, proc>>

----------------------------------------------------------------------------
(* The process: flags, environment and main().                             *)

\* The flags' defaults.
DefaultFlags ==
    [endpoint |-> "http://localhost:8007", username |-> "root@pam",
     apitoken |-> "", apitokenname |-> "pbs-exporter", timeout |-> "5s",
     insecure |-> "false", metricsPath |-> "/metrics",
     listenAddress |-> ":9101", loglevel |-> "info"]

FlagNames == DOMAIN DefaultFlags

\* The environment variable main() reads for each flag.
EnvName ==
    [endpoint |-> "PBS_ENDPOINT", username |-> "PBS_USERNAME",
     apitoken |-> "PBS_API_TOKEN", apitokenname |-> "PBS_API_TOKEN_NAME",
     timeout |-> "PBS_TIMEOUT", insecure |-> "PBS_INSECURE",
     metricsPath |-> "PBS_METRICS_PATH",
     listenAddress |-> "PBS_LISTEN_ADDRESS", loglevel |-> "PBS_LOGLEVEL"]

EnvNames == {EnvName[n] : n \in FlagNames}

\* An environment: each variable is unset, or set to a string (maybe "").
Unset == [set |-> FALSE, value |-> ""]
SetTo(v) == [set |-> TRUE, value |-> v]
NoEnv == [v \in EnvNames |-> Unset]

\* os.Getenv: the variable's value, "" when it is not set.
Getenv(env, name) == IF env[name].set THEN env[name].value ELSE ""

\* The nine `if os.Getenv(X) != "" { *flag = os.Getenv(X) }` of main().
Override(flags, env) ==
    [n \in FlagNames |->
        IF Getenv(env, EnvName[n]) # "" THEN Getenv(env, EnvName[n]) ELSE flags[n]]

\* strconv.ParseBool.
ParseBool(str) ==
    IF str \in {"1", "t", "T", "TRUE", "true", "True"}
    THEN [value |-> TRUE, err |-> FALSE]
    ELSE IF str \in {"0", "f", "F", "FALSE", "false", "False"}
    THEN [value |-> FALSE, err |-> FALSE]
    ELSE [value |-> FALSE, err |-> TRUE]

\* time.ParseDuration on the duration strings of the model, in milliseconds;
\* every other string of the model ("", "soon") is no duration.
ParseDuration(str) ==
    IF str = "5s" THEN [value |-> 5000, err |-> FALSE]
    ELSE IF str = "10s" THEN [value |-> 10000, err |-> FALSE]
    ELSE IF str = "1m30s" THEN [value |-> 90000, err |-> FALSE]
    ELSE [value |-> 0, err |-> TRUE]

NewExporter(endpoint, username, apitoken, apitokenname) ==
    [endpoint |-> endpoint,
     authorizationHeader |->
        "PBSAPIToken=" \o username \o "!" \o apitokenname \o ":" \o apitoken]

\* The process before main() has run past flag.Parse(): argv holds the
\* flags' values as parsed from the command line.
Started(argv, env) ==
    [phase |-> "start", argv |-> argv, flags |-> argv, env |-> env,
     exporter |-> [endpoint |-> "", authorizationHeader |-> ""],
     insecureSkipVerify |-> FALSE, timeout |-> 0]

\* main() from the overrides to http.ListenAndServe, or to log.Fatalf.
MainResult(p) ==
    LET flags == Override(p.flags, p.env)
        insecureBool == ParseBool(flags.insecure)
        timeoutDuration == ParseDuration(flags.timeout)
        p1 == [p EXCEPT !.flags = flags]
        p2 == [p1 EXCEPT !.insecureSkipVerify = insecureBool.value]
    IN  IF insecureBool.err THEN [p1 EXCEPT !.phase = "fatal"]
        ELSE IF timeoutDuration.err THEN [p2 EXCEPT !.phase = "fatal"]
        ELSE [p2 EXCEPT !.phase = "serving",
                        !.timeout = timeoutDuration.value,
                        !.exporter = NewExporter(flags.endpoint, flags.username,
                                                 flags.apitoken, flags.apitokenname)]

Main ==
    /\ proc.phase = "start"
    /\ proc' = MainResult(proc)
    /\ UNCHANGED <<frame, ch, served>>

\* The process serving scrapes after main() ran with the default flags and
\* no environment variable set.
DefaultServing == MainResult(Started(DefaultFlags, NoEnv))

----------------------------------------------------------------------------
(* Specifications.                                                         *)

Scrapes == 1..NScrapes

URLs ==
    LET e == DefaultServing.exporter
    IN  {UsageRequest(e).url, NodeRequest(e).url}
        \cup {NamespaceRequest(e, st).url : st \in Stores}
        \cup {SnapshotsRequest(e, st, n).url : st \in Stores, n \in NsNames}

Entry(store) == CHOOSE d \in DatastoreEntries : d.Store = store

\* Spec: one scrape of any backend with up to MaxDatastores datastores, each
\* with up to MaxNamespaces namespaces.
ScrapeResponses ==
    [usage |->
        Failures(<<>>) \cup {OK(l) : l \in SeqsUpTo(DatastoreEntries, MaxDatastores)},
     namespace |->
        Failures(<<>>) \cup {OK(l) : l \in SeqsUpTo({"", "n1"}, MaxNamespaces)},
     snapshots |-> Failures(<<>>) \cup {OK(<<>>), OK(<<"a", "a", "b">>)},
     node |-> Failures(ZeroHost) \cup {OK(h) : h \in HostStatuses}]

\* SpecDatastore: one scrape of a backend with one datastore, with any
\* namespace listing and any snapshot listings.
DatastoreResponses ==
    [usage |-> {OK(<<Entry("s1")>>)},
     namespace |->
        Failures(<<>>) \cup {OK(l) : l \in SeqsUpTo(NsNames, MaxNamespaces)},
     snapshots |->
        Failures(<<>>) \cup {OK(l) : l \in SeqsUpTo(BackupIDs, MaxSnapshots)},
     node |-> {OK(h) : h \in HostStatuses}]

\* SpecConcurrent: NScrapes scrapes at the same time, of a backend with two
\* datastores that may fail at any stage.
ConcurrentResponses ==
    LET Status500(zero) == {r \in Failures(zero) : r.status = 500}
    IN  [usage |-> Status500(<<>>) \cup {OK(<<Entry("s1"), Entry("s2")>>)},
         namespace |-> Status500(<<>>) \cup {OK(<<"", "n1">>)},
         snapshots |-> Status500(<<>>) \cup {OK(<<"a", "a", "b">>)},
         node |-> Status500(ZeroHost) \cup {OK(h) : h \in HostStatuses}]

Init ==
    /\ frame = [s \in Scrapes |-> IdleFrame]
    /\ ch = [c \in Scrapes |-> <<>>]
    /\ served = [u \in URLs |-> [known |-> FALSE]]
    /\ proc = DefaultServing

\* One scrape, against any backend.
Next ==
    \/ Collect(1)
    \/ RecvUsage(1, ScrapeResponses)
    \/ SendDatastore(1)
    \/ RecvNamespace(1, ScrapeResponses)
    \/ RecvSnapshots(1, ScrapeResponses)
    \/ SendSnapshotCount(1)
    \/ SendSnapshotVMCount(1)
    \/ RecvNode(1, ScrapeResponses)
    \/ SendHost(1)
    \/ SendUp(1)

Spec == Init /\ [][Next]_vars

\* SpecFair: one scrape of a backend whose usage listing has up to
\* MaxDatastores entries (of one datastore, or two different ones, or one
\* whose name makes no URL), each with up to MaxNamespaces namespaces, where
\* every request handed to client.Do returns a response or an error (the
\* client has a timeout) and every sample sent to the channel is received
\* (the registry reads the channel until Collect returns): the step that
\* completes the blocking operation is taken.
FairResponses ==
    LET Status500(zero) == {r \in Failures(zero) : r.status = 500}
    IN  [usage |->
            Failures(<<>>)
            \cup {OK(l) : l \in SeqsUpTo({Entry("s1")}, MaxDatastores)}
            \cup {OK(<<Entry("s1"), Entry("s2")>>), OK(<<Entry("%zz")>>)},
         namespace |->
            Status500(<<>>) \cup {OK(l) : l \in SeqsUpTo({"", "n1"}, MaxNamespaces)},
         snapshots |-> Status500(<<>>) \cup {OK(<<"a", "a", "b">>)},
         node |-> Status500(ZeroHost) \cup {OK(h) : h \in HostStatuses}]

NextFair ==
    \/ Collect(1)
    \/ RecvUsage(1, FairResponses)
    \/ SendDatastore(1)
    \/ RecvNamespace(1, FairResponses)
    \/ RecvSnapshots(1, FairResponses)
    \/ SendSnapshotCount(1)
    \/ SendSnapshotVMCount(1)
    \/ RecvNode(1, FairResponses)
    \/ SendHost(1)
    \/ SendUp(1)

Fairness ==
    /\ WF_vars(RecvUsage(1, FairResponses))
    /\ WF_vars(RecvNamespace(1, FairResponses))
    /\ WF_vars(RecvSnapshots(1, FairResponses))
    /\ WF_vars(RecvNode(1, FairResponses))
    /\ WF_vars(SendDatastore(1))
    /\ WF_vars(SendSnapshotCount(1))
    /\ WF_vars(SendSnapshotVMCount(1))
    /\ WF_vars(SendHost(1))
    /\ WF_vars(SendUp(1))

SpecFair == Init /\ [][NextFair]_vars /\ Fairness

NextDatastoreSpec ==
    \/ Collect(1)
    \/ RecvUsage(1, DatastoreResponses)
    \/ SendDatastore(1)
    \/ RecvNamespace(1, DatastoreResponses)
    \/ RecvSnapshots(1, DatastoreResponses)
    \/ SendSnapshotCount(1)
    \/ SendSnapshotVMCount(1)
    \/ RecvNode(1, DatastoreResponses)
    \/ SendHost(1)
    \/ SendUp(1)

SpecDatastore == Init /\ [][NextDatastoreSpec]_vars

NextConcurrent ==
    \E s \in Scrapes :
        \/ Collect(s)
        \/ RecvUsage(s, ConcurrentResponses)
        \/ SendDatastore(s)
        \/ RecvNamespace(s, ConcurrentResponses)
        \/ RecvSnapshots(s, ConcurrentResponses)
        \/ SendSnapshotCount(s)
        \/ SendSnapshotVMCount(s)
        \/ RecvNode(s, ConcurrentResponses)
        \/ SendHost(s)
        \/ SendUp(s)

SpecConcurrent == Init /\ [][NextConcurrent]_vars

\* SpecConfig: main() under any of these command lines and environments.
CommandLines ==
    { DefaultFlags,
      [endpoint |-> "https://pbs:8007", username |-> "admin@pbs",
       apitoken |-> "secret", apitokenname |-> "exporter", timeout |-> "10s",
       insecure |-> "true", metricsPath |-> "/m",
       listenAddress |-> ":9200", loglevel |-> "debug"],
      [DefaultFlags EXCEPT !.insecure = "maybe"],
      [DefaultFlags EXCEPT !.timeout = "soon"] }

EnvValue ==
    [endpoint |-> "https://env:8007", username |-> "env@pbs",
     apitoken |-> "envsecret", apitokenname |-> "envname", timeout |-> "1m30s",
     insecure |-> "1", metricsPath |-> "/env",
     listenAddress |-> ":9300", loglevel |-> "debug"]

FlagOf(v) == CHOOSE n \in FlagNames : EnvName[n] = v

\* Each variable unset, set to "", or set to its value.
Environments ==
    { [v \in EnvNames |->
         IF k[FlagOf(v)] = "unset" THEN Unset
         ELSE IF k[FlagOf(v)] = "empty" THEN SetTo("")
         ELSE SetTo(EnvValue[FlagOf(v)])] :
      k \in [FlagNames -> {"unset", "empty", "value"}] }

InitConfig ==
    /\ frame = [s \in Scrapes |-> IdleFrame]
    /\ ch = [c \in Scrapes |-> <<>>]
    /\ served = [u \in URLs |-> [known |-> FALSE]]
    /\ \E argv \in CommandLines, env \in Environments : proc = Started(argv, env)

NextConfig == Main

SpecConfig == InitConfig /\ [][NextConfig]_vars

----------------------------------------------------------------------------
(* What the claims are stated in.                                          *)

Endpoint == DefaultServing.exporter

UsageURL == UsageRequest(Endpoint).url
NodeURL == NodeRequest(Endpoint).url
NamespaceURL(store) == NamespaceRequest(Endpoint, store).url
SnapshotsURL(store, namespace) == SnapshotsRequest(Endpoint, store, namespace).url
SnapshotsURLs == {SnapshotsURL(st, n) : st \in Stores, n \in NsNames}

\* The positions of the samples called `name` in a channel.
At(c, name) == {i \in 1..Len(c) : c[i].name = name}

\* How often x is an element of the sequence q.
Occurrences(q, x) == Cardinality({i \in 1..Len(q) : q[i] = x})

\* The samples called `name`, in the order sent.
Named(c, name) == SelectSeq(c, LAMBDA x : x.name = name)

HostNames ==
    {"pbs_host_cpu_usage", "pbs_host_memory_free", "pbs_host_memory_total",
     "pbs_host_memory_used", "pbs_host_swap_free", "pbs_host_swap_total",
     "pbs_host_swap_used", "pbs_host_available_free", "pbs_host_disk_total",
     "pbs_host_disk_used", "pbs_host_uptime", "pbs_host_io_wait"}

FetchedOK(f, url) ==
    \E i \in 1..Len(f.fetches) : f.fetches[i].url = url /\ f.fetches[i].err = ""

Failed(f) == \E i \in 1..Len(f.fetches) : f.fetches[i].err # ""

\* The fetches of a finished scrape all succeeded: none ended in an error,
\* and the usage listing, every datastore's namespace listing and the node
\* status were fetched.
AllFetchesSucceeded(f) ==
    /\ ~Failed(f)
    /\ FetchedOK(f, UsageURL)
    /\ \A k \in 1..Len(f.dsList) : FetchedOK(f, NamespaceURL(f.dsList[k].Store))
    /\ FetchedOK(f, NodeURL)

----------------------------------------------------------------------------
\* C1: a scrape sends no up sample while it runs; when Collect has returned
\* it has sent exactly one, as its last sample, with no label, of value 1 if
\* every fetch of the scrape succeeded and 0 if one failed.
UpOnceLastAndTruthful ==
    \A s \in Scrapes :
        LET f == frame[s]
            c == ch[s]
        IN  /\ f.pc # "done" => At(c, "pbs_up") = {}
            /\ f.pc = "done" =>
                 /\ At(c, "pbs_up") = {Len(c)}
                 /\ c[Len(c)].labels = <<>>
                 /\ c[Len(c)].value = IF AllFetchesSucceeded(f) THEN 1 ELSE 0
                 /\ Failed(f) <=> ~AllFetchesSucceeded(f)

\* A scrape of two datastores has ended with up=1.
UpAfterTwoDatastores ==
    /\ frame[1].pc = "done"
    /\ Len(frame[1].dsList) = 2
    /\ FetchedOK(frame[1], NodeURL)
    /\ ch[1][Len(ch[1])].value = 1

----------------------------------------------------------------------------
\* C2, as claimed: the only sample a failed scrape sends is up=0.
FailedScrapeSendsOnlyUp ==
    \A s \in Scrapes :
        (frame[s].pc = "done" /\ Failed(frame[s])) =>
            ch[s] = << [name |-> "pbs_up", labels |-> <<>>, value |-> 0] >>

\* The successful snapshot fetches of a scrape.
SnapshotFetchesOK(f) ==
    {i \in 1..Len(f.fetches) :
        f.fetches[i].url \in SnapshotsURLs /\ f.fetches[i].err = ""}

\* The keys of the maps the scrape counted: for each snapshot listing it
\* fetched, the number of different backup ids in it, in total.
VMKeysFetched(f) ==
    LET keys(i) == IF i \in SnapshotFetchesOK(f)
                   THEN Cardinality(Range(served[f.fetches[i].url].resp.data))
                   ELSE 0
        S[i \in 0..Len(f.fetches)] == IF i = 0 THEN 0 ELSE S[i - 1] + keys(i)
    IN  S[Len(f.fetches)]

\* C2, amended: a failed scrape sends up=0 as its last sample, and what it
\* sent before the failing fetch stays sent: the available/size/used triple
\* of each datastore it had started, with the entry's values, in listing
\* order; for each snapshot listing it had fetched, one snapshot_count and
\* one snapshot_vm_count per backup id of the listing, each with the
\* namespace of a fetched listing and the count of its id there; and no
\* host sample.  up=0 is the only sample exactly when the scrape had
\* started no datastore: the usage listing failed, or it was empty and the
\* node status failed.
FailedScrapeKeepsWhatItSent ==
    \A s \in Scrapes :
        LET f == frame[s]
            c == ch[s]
        IN  (f.pc = "done" /\ Failed(f)) =>
              /\ c # <<>>
              /\ c[Len(c)] = [name |-> "pbs_up", labels |-> <<>>, value |-> 0]
              /\ At(c, "pbs_up") = {Len(c)}
              /\ Named(c, "pbs_available")
                   = [i \in 1..f.di |->
                        [name |-> "pbs_available", labels |-> <<>>,
                         value |-> f.dsList[i].Avail]]
              /\ Named(c, "pbs_size")
                   = [i \in 1..f.di |->
                        [name |-> "pbs_size", labels |-> <<>>,
                         value |-> f.dsList[i].Total]]
              /\ Named(c, "pbs_used")
                   = [i \in 1..f.di |->
                        [name |-> "pbs_used", labels |-> <<>>,
                         value |-> f.dsList[i].Used]]
              /\ Cardinality(At(c, "pbs_snapshot_count"))
                    = Cardinality(SnapshotFetchesOK(f))
              /\ Cardinality(At(c, "pbs_snapshot_vm_count")) = VMKeysFetched(f)
              /\ \A i \in At(c, "pbs_snapshot_count") :
                    \E st \in Stores, n \in NsNames :
                       /\ c[i].labels = <<n>>
                       /\ FetchedOK(f, SnapshotsURL(st, n))
                       /\ c[i].value = Len(served[SnapshotsURL(st, n)].resp.data)
              /\ \A i \in At(c, "pbs_snapshot_vm_count") :
                    \E st \in Stores, n \in NsNames, id \in BackupIDs :
                       /\ c[i].labels = <<n, id>>
                       /\ FetchedOK(f, SnapshotsURL(st, n))
                       /\ c[i].value > 0
                       /\ c[i].value
                            = Occurrences(served[SnapshotsURL(st, n)].resp.data, id)
              /\ \A n \in HostNames : At(c, n) = {}
              /\ Len(c) = 1 <=> f.di = 0
              /\ f.di = 0 <=>
                    \/ f.fetches[1].err # ""
                    \/ /\ f.dsList = <<>>
                       /\ Len(f.fetches) = 2
                       /\ f.fetches[2].url = NodeURL
                       /\ f.fetches[2].err # ""

\* A scrape failed at its second datastore after sending the first one's
\* samples, those of a snapshot listing among them.
FailedAfterSamples ==
    /\ frame[1].pc = "done"
    /\ Failed(frame[1])
    /\ frame[1].di = 2
    /\ SnapshotFetchesOK(frame[1]) # {}
    /\ At(ch[1], "pbs_snapshot_vm_count") # {}
    /\ Len(ch[1]) > 6

----------------------------------------------------------------------------
\* C3: when a fetch of a scrape has failed, it is the scrape's last fetch:
\* collectFromAPI has returned the error and Collect is in its send of up
\* or has returned, every request sent has been answered, the failed
\* request is the last one sent (none follows it, and it is not sent again),
\* and a scrape whose usage listing failed has sent that one request only.
FailFastNoRetry ==
    \A s \in Scrapes :
        LET f == frame[s]
        IN  \A i \in 1..Len(f.fetches) :
              f.fetches[i].err # "" =>
                /\ i = Len(f.fetches)
                /\ f.pc \in {"up", "done"}
                /\ f.err # ""
                /\ Len(f.sent)
                     = Cardinality({j \in 1..Len(f.fetches) :
                                       f.fetches[j].err # "request"})
                /\ f.fetches[i].err # "request" =>
                     /\ f.sent[Len(f.sent)] = f.fetches[i].url
                /\ i = 1 => f.sent = <<UsageURL>>

\* A snapshot listing failed while a datastore was still to come.
FailedWithWorkLeft ==
    /\ frame[1].pc = "done"
    /\ Len(frame[1].fetches) >= 3
    /\ frame[1].fetches[Len(frame[1].fetches)].err = "status"
    /\ frame[1].fetches[Len(frame[1].fetches)].url \in SnapshotsURLs
    /\ frame[1].di < Len(frame[1].dsList)

----------------------------------------------------------------------------
RECURSIVE SumValues(_, _)
SumValues(c, at) ==
    IF at = {} THEN 0
    ELSE LET i == CHOOSE j \in at : TRUE
         IN  c[i].value + SumValues(c, at \ {i})

\* The positions of the samples called `name` with the labels `labels`.
AtLabelled(c, name, labels) ==
    {i \in 1..Len(c) : c[i].name = name /\ c[i].labels = labels}

\* C4: for every namespace n whose snapshot listing L a scrape has fetched
\* (k times, k > 1 only if the namespace listing names n twice), the scrape
\* has sent per fetch one snapshot_count{n} of value Len(L) and, for each
\* backup id, one snapshot_vm_count{n, id} of value the id's number of
\* occurrences in L if it occurs and none if it does not; the
\* snapshot_vm_count values of a fetch sum to Len(L); an empty L gives
\* snapshot_count 0, no snapshot_vm_count and no error.  What is sent is a
\* function of the occurrences alone, so not of the order of L.  While the
\* scrape is in the sends of its last fetch of n, the samples of that fetch
\* are sent in part: snapshot_count first, then the backup ids one by one.
SnapshotGrouping ==
    \A s \in Scrapes : \A n \in NsNames :
        LET f == frame[s]
            c == ch[s]
            url == SnapshotsURL("s1", n)
            k == Cardinality({i \in 1..Len(f.fetches) :
                                 f.fetches[i].url = url /\ f.fetches[i].err = ""})
            L == served[url].resp.data
            counts == AtLabelled(c, "pbs_snapshot_count", <<n>>)
            vms == {i \in At(c, "pbs_snapshot_vm_count") : c[i].labels[1] = n}
            vmsOf(id) == AtLabelled(c, "pbs_snapshot_vm_count", <<n, id>>)
            sending == f.pc \in {"snapshot_count", "snapshot_vm_count"}
                          /\ f.nsList[f.ni] = n
            yielded == IF f.pc = "snapshot_vm_count"
                       THEN Range(SubSeq(f.ranged, 1, Len(f.ranged) - 1))
                       ELSE {}
        IN  /\ k = 0 => counts = {} /\ vms = {}
            /\ k > 0 =>
                 /\ \A i \in counts : c[i].value = Len(L)
                 /\ \A i \in vms :
                      /\ Len(c[i].labels) = 2
                      /\ c[i].labels[2] \in Range(L)
                      /\ c[i].value = Occurrences(L, c[i].labels[2])
                 /\ L = <<>> => vms = {} /\ \A i \in counts : c[i].value = 0
            /\ (k > 0 /\ ~sending) =>
                 /\ Cardinality(counts) = k
                 /\ \A id \in Range(L) : Cardinality(vmsOf(id)) = k
                 /\ SumValues(c, vms) = k * Len(L)
            /\ (k > 0 /\ sending) =>
                 /\ Cardinality(counts)
                      = IF f.pc = "snapshot_count" THEN k - 1 ELSE k
                 /\ \A id \in Range(L) :
                      Cardinality(vmsOf(id)) = IF id \in yielded THEN k ELSE k - 1

\* The listing [a, b, a] of namespace n1 has given 3 and {a: 2, b: 1}.
GroupedABA ==
    /\ frame[1].pc = "done"
    /\ served[SnapshotsURL("s1", "n1")].known
    /\ served[SnapshotsURL("s1", "n1")].resp.data = <<"a", "b", "a">>
    /\ [name |-> "pbs_snapshot_count", labels |-> <<"n1">>, value |-> 3]
           \in Range(ch[1])
    /\ [name |-> "pbs_snapshot_vm_count", labels |-> <<"n1", "a">>, value |-> 2]
           \in Range(ch[1])
    /\ [name |-> "pbs_snapshot_vm_count", labels |-> <<"n1", "b">>, value |-> 1]
           \in Range(ch[1])

----------------------------------------------------------------------------
\* C5: a scrape sends no snapshot-listing request for the namespace "" and no
\* snapshot sample labelled with it; the snapshot-listing requests it has
\* sent for the datastore are, in order, those of the non-empty entries of
\* the datastore's namespace listing: a prefix of them while the scrape runs
\* or once it has failed, all of them once the loop has ended.
RootNamespaceSkipped ==
    \A s \in Scrapes :
        LET f == frame[s]
            c == ch[s]
            nonEmpty == SelectSeq(f.nsList, LAMBDA n : n # "")
            expected == [k \in 1..Len(nonEmpty) |->
                            SnapshotsURL(f.dsList[1].Store, nonEmpty[k])]
            snapSent == SelectSeq(f.sent, LAMBDA u : u \in SnapshotsURLs)
        IN  /\ \A i \in 1..Len(f.sent) :
                  f.sent[i] \notin {SnapshotsURL(st, "") : st \in Stores}
            /\ \A i \in At(c, "pbs_snapshot_count") \cup At(c, "pbs_snapshot_vm_count") :
                  c[i].labels[1] # ""
            /\ Len(snapSent) <= Len(expected)
            /\ \A k \in 1..Len(snapSent) : snapSent[k] = expected[k]
            /\ (f.pc \in {"node", "host", "up", "done"} /\ ~Failed(f)) =>
                  snapSent = expected

\* A scrape went past an empty entry to the namespace after it.
SkippedRootThenListed ==
    /\ frame[1].pc = "done"
    /\ ~Failed(frame[1])
    /\ frame[1].nsList = <<"", "n2">>
    /\ SnapshotsURL("s1", "n2") \in Range(frame[1].sent)
    /\ At(ch[1], "pbs_snapshot_count") # {}

----------------------------------------------------------------------------
(* A scrape run alone against the backend as it has answered so far: the   *)
(* requests it sends, in order, and the samples it sends (each map in one  *)
(* fixed order), computed in one piece.  A URL the backend has not been    *)
(* asked yet ends the run with its request.                                *)

Answered(url) == served[url].known /\ ResponseError(served[url].resp) = ""

Sample(name, labels, value) == [name |-> name, labels |-> labels, value |-> value]

RECURSIVE AloneNamespaces(_, _, _)
AloneNamespaces(store, nsList, j) ==
    IF j > Len(nsList) THEN [reqs |-> <<>>, out |-> <<>>, ok |-> TRUE]
    ELSE IF nsList[j] = "" THEN AloneNamespaces(store, nsList, j + 1)
    ELSE LET url == SnapshotsURL(store, nsList[j])
         IN  IF ~Answered(url)
             THEN [reqs |-> <<url>>, out |-> <<>>, ok |-> FALSE]
             ELSE LET L == served[url].resp.data
                      ids == CHOOSE q \in [1..Cardinality(Range(L)) -> Range(L)] :
                                Range(q) = Range(L)
                      rest == AloneNamespaces(store, nsList, j + 1)
                  IN  [reqs |-> <<url>> \o rest.reqs,
                       out |-> <<Sample("pbs_snapshot_count", <<nsList[j]>>, Len(L))>>
                               \o [k \in 1..Len(ids) |->
                                     Sample("pbs_snapshot_vm_count",
                                            <<nsList[j], ids[k]>>,
                                            Occurrences(L, ids[k]))]
                               \o rest.out,
                       ok |-> rest.ok]

AloneNode ==
    IF ~Answered(NodeURL)
    THEN [reqs |-> <<NodeURL>>, out |-> <<>>, ok |-> FALSE]
    ELSE LET d == served[NodeURL].resp.data
         IN  [reqs |-> <<NodeURL>>,
              out |-> << Sample("pbs_host_cpu_usage", <<>>, d.CPU),
                         Sample("pbs_host_memory_free", <<>>, d.Mem.Free),
                         Sample("pbs_host_memory_total", <<>>, d.Mem.Total),
                         Sample("pbs_host_memory_used", <<>>, d.Mem.Used),
                         Sample("pbs_host_swap_free", <<>>, d.Swap.Free),
                         Sample("pbs_host_swap_total", <<>>, d.Swap.Total),
                         Sample("pbs_host_swap_used", <<>>, d.Swap.Used),
                         Sample("pbs_host_available_free", <<>>, d.Disk.Avail),
                         Sample("pbs_host_disk_total", <<>>, d.Disk.Total),
                         Sample("pbs_host_disk_used", <<>>, d.Disk.Used),
                         Sample("pbs_host_uptime", <<>>, d.Uptime),
                         Sample("pbs_host_io_wait", <<>>, d.Wait) >>,
              ok |-> TRUE]

RECURSIVE AloneDatastores(_, _)
AloneDatastores(dsList, i) ==
    IF i > Len(dsList) THEN AloneNode
    ELSE LET d == dsList[i]
             triple == << Sample("pbs_available", <<>>, d.Avail),
                          Sample("pbs_size", <<>>, d.Total),
                          Sample("pbs_used", <<>>, d.Used) >>
             url == NamespaceURL(d.Store)
         IN  IF d.Store \in Unparseable
             THEN [reqs |-> <<>>, out |-> triple, ok |-> FALSE]
             ELSE IF ~Answered(url)
             THEN [reqs |-> <<url>>, out |-> triple, ok |-> FALSE]
             ELSE LET ns == AloneNamespaces(d.Store, served[url].resp.data, 1)
                      rest == IF ns.ok THEN AloneDatastores(dsList, i + 1)
                              ELSE [reqs |-> <<>>, out |-> <<>>, ok |-> FALSE]
                  IN  [reqs |-> <<url>> \o ns.reqs \o rest.reqs,
                       out |-> triple \o ns.out \o rest.out,
                       ok |-> rest.ok]

Alone ==
    LET run == IF ~Answered(UsageURL)
               THEN [reqs |-> <<>>, out |-> <<>>, ok |-> FALSE]
               ELSE AloneDatastores(served[UsageURL].resp.data, 1)
    IN  [reqs |-> <<UsageURL>> \o run.reqs,
         out |-> run.out \o <<Sample("pbs_up", <<>>, IF run.ok THEN 1 ELSE 0)>>]

IsPrefix(p, q) == Len(p) <= Len(q) /\ \A i \in 1..Len(p) : p[i] = q[i]

\* As multisets: every sample of c is in d at least as often.
SubBag(c, d) == \A x \in Range(c) : Occurrences(c, x) <= Occurrences(d, x)
SameBag(c, d) == SubBag(c, d) /\ SubBag(d, c)

----------------------------------------------------------------------------
\* C6: with scrapes running at the same time against a backend that answers
\* each URL the same way every time, nothing of the process changes, every
\* scrape sends the requests it would send alone, what it has sent to its
\* channel is part of what it would send alone, and when it is done it has
\* sent exactly the samples it would send alone.
ScrapesIndependent ==
    /\ proc = DefaultServing
    /\ \A s \in Scrapes :
        LET f == frame[s]
        IN  /\ f.pc = "idle" => ch[s] = <<>>
            /\ IsPrefix(f.sent, Alone.reqs)
            /\ SubBag(ch[s], Alone.out)
            /\ f.pc = "done" => f.sent = Alone.reqs /\ SameBag(ch[s], Alone.out)

\* Two scrapes are done with the same samples, sent in different orders,
\* and a third party to neither: both walked two datastores.
TwoScrapesSameSamples ==
    /\ frame[1].pc = "done" /\ frame[2].pc = "done"
    /\ ~Failed(frame[1])
    /\ Len(frame[1].dsList) = 2
    /\ ch[1] # ch[2]
    /\ Len(ch[1]) = Len(ch[2])

----------------------------------------------------------------------------
\* EnvName and the flag variables, for the claim about main().
Effective(p, n) ==
    IF p.env[EnvName[n]].set THEN p.env[EnvName[n]].value ELSE p.argv[n]

\* C7, as claimed: once main() is past its overrides, every configuration
\* item has the value of its environment variable if that is set and the
\* value of its flag if not, and the exporter is built from these values.
EnvironmentOverridesFlags ==
    proc.phase # "start" =>
        /\ \A n \in FlagNames : proc.flags[n] = Effective(proc, n)
        /\ proc.phase = "serving" =>
             proc.exporter = NewExporter(Effective(proc, "endpoint"),
                                         Effective(proc, "username"),
                                         Effective(proc, "apitoken"),
                                         Effective(proc, "apitokenname"))

----------------------------------------------------------------------------
Waiting(f) == f.pc \in {"usage", "namespace", "snapshots", "node"}

\* C8: the requests of a scrape are those of the one pass
\* usage listing; per datastore, in listing order: its namespace listing,
\* then the snapshot listings of its non-empty namespaces, in listing order;
\* node status -- up to where the scrape is, or where it failed.  The usage
\* listing is the first request and is sent once.  The node status is sent
\* last, after every datastore's namespace listing was fetched and no fetch
\* failed.  One request at most is unanswered, and then the scrape waits
\* for it.
RequestsInOnePass ==
    \A s \in Scrapes :
        LET f == frame[s]
            answered == Cardinality({j \in 1..Len(f.fetches) :
                                        f.fetches[j].err # "request"})
        IN  /\ IsPrefix(f.sent, Alone.reqs)
            /\ f.pc = "done" => f.sent = Alone.reqs
            /\ f.pc # "idle" =>
                 /\ f.sent[1] = UsageURL
                 /\ Occurrences(f.sent, UsageURL) = 1
            /\ \A i \in 1..Len(f.sent) :
                 f.sent[i] = NodeURL =>
                    /\ i = Len(f.sent)
                    /\ \A j \in 1..Len(f.fetches) : f.fetches[j].err = "" \/ j = i
                    /\ \A k \in 1..Len(f.dsList) :
                          FetchedOK(f, NamespaceURL(f.dsList[k].Store))
            /\ Len(f.sent) - answered = IF Waiting(f) THEN 1 ELSE 0

\* A scrape of two datastores with a namespace each is waiting for the node
\* status, its sixth request.
NodeStatusRequestedLast ==
    /\ frame[1].pc = "node"
    /\ Len(frame[1].dsList) = 2
    /\ frame[1].dsList[1] # frame[1].dsList[2]
    /\ Len(frame[1].sent) = 6

----------------------------------------------------------------------------
NotHost ==
    {"pbs_up", "pbs_available", "pbs_size", "pbs_used", "pbs_snapshot_count",
     "pbs_snapshot_vm_count"}

HostAt(c) == {i \in 1..Len(c) : c[i].name \notin NotHost}

\* C9, as claimed: a scrape that has fetched the node status and is past
\* the sends of getNodeMetrics has sent 11 host samples.
ElevenHostSamples ==
    \A s \in Scrapes :
        (FetchedOK(frame[s], NodeURL) /\ frame[s].pc # "host") =>
            Cardinality(HostAt(ch[s])) = 11

\* The field of the node status that each host sample is to carry.
HostField(d, name) ==
    CASE name = "pbs_host_cpu_usage" -> d.CPU
      [] name = "pbs_host_memory_free" -> d.Mem.Free
      [] name = "pbs_host_memory_total" -> d.Mem.Total
      [] name = "pbs_host_memory_used" -> d.Mem.Used
      [] name = "pbs_host_swap_free" -> d.Swap.Free
      [] name = "pbs_host_swap_total" -> d.Swap.Total
      [] name = "pbs_host_swap_used" -> d.Swap.Used
      [] name = "pbs_host_available_free" -> d.Disk.Avail
      [] name = "pbs_host_disk_total" -> d.Disk.Total
      [] name = "pbs_host_disk_used" -> d.Disk.Used
      [] name = "pbs_host_uptime" -> d.Uptime
      [] name = "pbs_host_io_wait" -> d.Wait

\* C9, amended: a scrape that has fetched the node status sends 12 host
\* samples (cpu usage, memory free/total/used, swap free/total/used, disk
\* avail/total/used, uptime, io-wait), one send after the other: once past
\* these sends it has sent each of them once, and while in them the first
\* ones; each without labels, carrying its field of the response, and none
\* twice.  A scrape that has not fetched the node status, or whose
\* node-status fetch failed, has sent no host sample.
TwelveHostSamples ==
    \A s \in Scrapes :
        LET f == frame[s]
            c == ch[s]
        IN  IF FetchedOK(f, NodeURL)
            THEN /\ Cardinality(HostAt(c)) = IF f.pc = "host" THEN f.k - 1 ELSE 12
                 /\ \A n \in HostNames :
                      /\ Cardinality(At(c, n)) <= 1
                      /\ f.pc # "host" => Cardinality(At(c, n)) = 1
                      /\ \A i \in At(c, n) :
                            /\ c[i].labels = <<>>
                            /\ c[i].value = HostField(served[NodeURL].resp.data, n)
            ELSE HostAt(c) = {}

\* A scrape has sent the host samples of a node status with distinct fields.
HostSamplesSent ==
    /\ frame[1].pc = "done"
    /\ FetchedOK(frame[1], NodeURL)
    /\ served[NodeURL].resp.data.Mem.Free = 2
    /\ [name |-> "pbs_host_memory_free", labels |-> <<>>, value |-> 2]
          \in Range(ch[1])

----------------------------------------------------------------------------
\* C10: a scrape that succeeded on a usage listing of N entries has sent N
\* available, N size and N used samples, the i-th of each carrying the i-th
\* entry's avail, total and used, all without labels, as N triples
\* available, size, used one after the other's datastore; so for N >= 2 it
\* has sent samples of the same name and labels, the last of them the last
\* entry's.
DatastoreTriplesUnlabelled ==
    \A s \in Scrapes :
        LET f == frame[s]
            c == ch[s]
            listing == served[UsageURL].resp.data
            N == Len(listing)
        IN  (f.pc = "done" /\ ~Failed(f)) =>
              /\ Named(c, "pbs_available")
                   = [i \in 1..N |-> Sample("pbs_available", <<>>, listing[i].Avail)]
              /\ Named(c, "pbs_size")
                   = [i \in 1..N |-> Sample("pbs_size", <<>>, listing[i].Total)]
              /\ Named(c, "pbs_used")
                   = [i \in 1..N |-> Sample("pbs_used", <<>>, listing[i].Used)]
              /\ \A i \in At(c, "pbs_available") :
                   c[i + 1].name = "pbs_size" /\ c[i + 2].name = "pbs_used"
              /\ N >= 2 =>
                   \E i, j \in 1..Len(c) :
                      i < j /\ c[i].name = c[j].name /\ c[i].labels = c[j].labels
              /\ N >= 1 =>
                   LET last == CHOOSE i \in At(c, "pbs_used") :
                                  \A j \in At(c, "pbs_used") : j <= i
                   IN  c[last].value = listing[N].Used

\* A scrape of two different datastores succeeded.
TwoDatastoresSameSeries ==
    /\ frame[1].pc = "done"
    /\ ~Failed(frame[1])
    /\ Len(frame[1].dsList) = 2
    /\ frame[1].dsList[1].Store = "s1"
    /\ frame[1].dsList[2].Store = "s2"
    /\ Cardinality(At(ch[1], "pbs_size")) = 2

----------------------------------------------------------------------------
\* The entries of a namespace listing that are not the root namespace.
NonEmptyEntries(l) == Cardinality({j \in 1..Len(l) : l[j] # ""})

\* M: the non-empty entries, in total, of the namespace listings the scrape
\* fetched, one listing per entry of its usage listing.
NonEmptyTotal(f) ==
    LET url(k) == NamespaceURL(f.dsList[k].Store)
        S[k \in 0..Len(f.dsList)] ==
            IF k = 0 THEN 0
            ELSE S[k - 1] + (IF FetchedOK(f, url(k))
                             THEN NonEmptyEntries(served[url(k)].resp.data)
                             ELSE 0)
    IN  S[Len(f.dsList)]

\* The most requests a scrape of listings within the bounds can issue.
MostRequests == 1 + MaxDatastores + MaxDatastores * MaxNamespaces + 1

RequestCount ==
    \A s \in Scrapes :
        LET f == frame[s]
            N == Len(f.dsList)
            M == NonEmptyTotal(f)
        IN  /\ Len(f.sent) <= 1 + N + M + 1
            /\ Len(f.sent) <= MostRequests
            /\ f.pc = "done" /\ f.err = "" => Len(f.sent) = 1 + N + M + 1

UpSent(s) ==
    /\ frame[s].pc = "done"
    /\ Len(ch[s]) > 0
    /\ ch[s][Len(ch[s])].name = "pbs_up"

\* C11: when every request returns a response or an error, the scrape,
\* once started, ends -- Collect returns, having sent its up sample last --
\* and it does so within a bounded number of requests.  A successful scrape
\* of N datastores whose namespace listings have M non-empty entries in
\* total has issued exactly 1 + N + M + 1 requests; a scrape that is running
\* or has failed has issued no more than that, for the listings it fetched.
ScrapeTerminates ==
    /\ []RequestCount
    /\ (frame[1].pc # "idle") ~> UpSent(1)

\* A successful scrape of two different datastores whose namespace listings
\* have two non-empty entries in total has ended after 1 + 2 + 2 + 1
\* requests.
SucceededAfterSixRequests ==
    /\ frame[1].pc = "done"
    /\ frame[1].err = ""
    /\ Len(frame[1].dsList) = 2
    /\ frame[1].dsList[1] # frame[1].dsList[2]
    /\ NonEmptyTotal(frame[1]) = 2
    /\ Len(frame[1].sent) = 6
    /\ UpSent(1)

====
